---- MODULE Spec2Model ----
(***************************************************************************)
(* Liquidation-waterfall engine of equity-analyzer (src/models.py).        *)
(*                                                                         *)
(* Money amounts and share counts are drawn from small integer ranges.     *)
(* Python's float division and multiplication are modelled by exact        *)
(* rational arithmetic on normalised fractions [num, den] (den > 0), so    *)
(* equalities between results are equalities of real numbers.              *)
(***************************************************************************)
EXTENDS Integers, Sequences, FiniteSets, TLC

(***************************************************************************)
(* Bounds of the explored input space.                                     *)
(***************************************************************************)
MaxRounds == 2
MaxShares == 2
MaxTotalShares == 4
MaxExit == 4
MaxScenarios == 2
MaxExitMillions == 50

ShareCounts == 0..MaxShares
CapitalAmounts == 0..1
Multiples == 1..2
OptionCounts == 0..1
StrikePrices == 0..1
ExitValuations == -1..MaxExit

(***************************************************************************)
(* Exact rational arithmetic standing for Python float arithmetic.         *)
(***************************************************************************)
Abs(x) == IF x < 0 THEN -x ELSE x

RECURSIVE GCD(_, _)
GCD(a, b) == IF b = 0 THEN a ELSE GCD(b, a % b)

Rat(n, d) ==
    LET s == IF d < 0 THEN -1 ELSE 1
        g == GCD(Abs(n), Abs(d))
    IN  [num |-> (s * n) \div g, den |-> (s * d) \div g]

FromInt(i) == [num |-> i, den |-> 1]
RatMul(a, b) == Rat(a.num * b.num, a.den * b.den)
RatDiv(a, b) == Rat(a.num * b.den, a.den * b.num)
RatAdd(a, b) == Rat(a.num * b.den + b.num * a.den, a.den * b.den)
RatSub(a, b) == Rat(a.num * b.den - b.num * a.den, a.den * b.den)
RatLess(a, b) == a.num * b.den < b.num * a.den
RatLeq(a, b) == a.num * b.den <= b.num * a.den
RatMax(a, b) == IF RatLess(a, b) THEN b ELSE a
Min(a, b) == IF a <= b THEN a ELSE b

RECURSIVE SumSeq(_)
SumSeq(s) == IF s = <<>> THEN 0 ELSE Head(s) + SumSeq(Tail(s))

(***************************************************************************)
(* Data model: FundingRound, CapTable, ExitScenario, ScenarioResult.       *)
(***************************************************************************)
KnownRounds == <<"Seed", "Series A", "Series B", "Series C">>
UnknownKey == 999

liquidation_preference(round) == round.capital_raised * round.liquidation_multiple

total_preferred_shares(ct) ==
    SumSeq([i \in 1..Len(ct.funding_rounds) |-> ct.funding_rounds[i].shares_issued])

common_shares(ct) == ct.total_shares - total_preferred_shares(ct)

(* variant: the check lets a cap table with exactly zero common shares through *)
HasConfigErrorStrict(ct) == common_shares(ct) < 0

HasConfigError(ct) == common_shares(ct) <= 0

NoError == "None"
ConfigError == "Preferred shares exceed total shares"

ScenarioResult(name, valuation, option_value, price, proceeds, err) ==
    [scenario_name |-> name, exit_valuation |-> valuation,
     option_value |-> option_value, price_per_share |-> price,
     common_proceeds |-> proceeds, error |-> err]

(***************************************************************************)
(* sorted(funding_rounds, key = index in KnownRounds or 999, reverse=True) *)
(* Python's sort is stable also under reverse=True: rounds with equal keys *)
(* keep their original relative order.                                     *)
(***************************************************************************)
SortKey(round) ==
    IF \E i \in 1..Len(KnownRounds) : KnownRounds[i] = round.name
    THEN (CHOOSE i \in 1..Len(KnownRounds) : KnownRounds[i] = round.name) - 1
    ELSE UnknownKey

RECURSIVE InsertRound(_, _)
InsertRound(sorted, round) ==
    IF sorted = <<>> THEN <<round>>
    ELSE IF SortKey(Head(sorted)) >= SortKey(round)
         THEN <<Head(sorted)>> \o InsertRound(Tail(sorted), round)
         ELSE <<round>> \o sorted

RECURSIVE SortedRounds(_)
SortedRounds(rounds) ==
    IF rounds = <<>> THEN <<>>
    ELSE InsertRound(SortedRounds(SubSeq(rounds, 1, Len(rounds) - 1)),
                     rounds[Len(rounds)])

(***************************************************************************)
(* EquityCalculator.calculate_scenario: the bodies of its loops and its    *)
(* final distribution, as functions of the local variables.                *)
(***************************************************************************)
EmptyPayouts == [n \in {} |-> 0]

IsProcessed(round) == round.shares_issued > 0 /\ round.capital_raised > 0

(* variant: a round is paid its whole preference, whatever remains *)
Phase1BodyFullPreference(st, round) ==
    IF IsProcessed(round)
    THEN LET preference_payout == liquidation_preference(round)
         IN  [st EXCEPT
                !.remaining_proceeds = @ - preference_payout,
                !.preference_payouts = (round.name :> preference_payout) @@ @,
                !.participating_shareholders =
                    IF round.is_participating
                    THEN Append(@, [round |-> round.name,
                                    shares |-> round.shares_issued])
                    ELSE @]
    ELSE st

Phase1Body(st, round) ==
    IF IsProcessed(round)
    THEN LET preference_payout ==
                 Min(st.remaining_proceeds, liquidation_preference(round))
         IN  [st EXCEPT
                !.remaining_proceeds = @ - preference_payout,
                !.preference_payouts = (round.name :> preference_payout) @@ @,
                !.participating_shareholders =
                    IF round.is_participating
                    THEN Append(@, [round |-> round.name,
                                    shares |-> round.shares_issued])
                    ELSE @]
    ELSE st

(* variant: the pool counts the participating preferred shares only *)
ParticipatingPoolPreferredOnly(ct, shareholders) ==
    SumSeq([i \in 1..Len(shareholders) |-> shareholders[i].shares])

ParticipatingPool(ct, shareholders) ==
    common_shares(ct)
      + SumSeq([i \in 1..Len(shareholders) |-> shareholders[i].shares])

ConversionValue(ct, sc, round) ==
    RatMul(RatDiv(FromInt(round.shares_issued), FromInt(ct.total_shares)),
           FromInt(sc.exit_valuation))

PreferenceValue(payouts, round) ==
    IF round.name \in DOMAIN payouts THEN payouts[round.name] ELSE 0

(* variant: the participation flag is not looked at *)
ConvertsAnyRound(ct, sc, payouts, round) ==
    /\ IsProcessed(round)
    /\ RatLess(FromInt(PreferenceValue(payouts, round)),
               ConversionValue(ct, sc, round))

Converts(ct, sc, payouts, round) ==
    /\ IsProcessed(round)
    /\ ~round.is_participating
    /\ RatLess(FromInt(PreferenceValue(payouts, round)),
               ConversionValue(ct, sc, round))

(* variant: a converting round is refunded its whole preference *)
Phase2BodyRefundsPreference(ct, sc, st, round) ==
    IF Converts(ct, sc, st.preference_payouts, round)
    THEN [st EXCEPT
            !.remaining_proceeds = @ + liquidation_preference(round),
            !.total_participating_shares = @ + round.shares_issued]
    ELSE st

(* variant: the test values a round's shares against the proceeds left so far *)
Phase2BodyAgainstRemaining(ct, sc, st, round) ==
    IF /\ IsProcessed(round)
       /\ ~round.is_participating
       /\ RatLess(FromInt(PreferenceValue(st.preference_payouts, round)),
                  RatMul(RatDiv(FromInt(round.shares_issued),
                                FromInt(ct.total_shares)),
                         FromInt(st.remaining_proceeds)))
    THEN [st EXCEPT
            !.remaining_proceeds = @ + PreferenceValue(st.preference_payouts, round),
            !.total_participating_shares = @ + round.shares_issued]
    ELSE st

(* variant: a converting round is refunded but its shares do not join the pool *)
Phase2BodyRefundOnly(ct, sc, st, round) ==
    IF Converts(ct, sc, st.preference_payouts, round)
    THEN [st EXCEPT
            !.remaining_proceeds = @ + PreferenceValue(st.preference_payouts, round)]
    ELSE st

Phase2Body(ct, sc, st, round) ==
    IF Converts(ct, sc, st.preference_payouts, round)
    THEN [st EXCEPT
            !.remaining_proceeds = @ + PreferenceValue(st.preference_payouts, round),
            !.total_participating_shares = @ + round.shares_issued]
    ELSE st

(* variant: the strike price is not deducted *)
OptionValuePerShareStrikeIgnored(ct, price_per_common_share) ==
    RatMax(FromInt(0), price_per_common_share)

(* variant: the per-share value is not floored at zero *)
OptionValuePerShareUnfloored(ct, price_per_common_share) ==
    RatSub(price_per_common_share, FromInt(ct.strike_price))

OptionValuePerShare(ct, price_per_common_share) ==
    RatMax(FromInt(0), RatSub(price_per_common_share, FromInt(ct.strike_price)))

(* variant: the reported price spreads common proceeds over all shares *)
Phase3PriceOverTotal(ct, sc, st) ==
    LET common_proceeds ==
            IF st.total_participating_shares > 0
            THEN RatMul(RatDiv(FromInt(st.remaining_proceeds),
                               FromInt(st.total_participating_shares)),
                        FromInt(common_shares(ct)))
            ELSE FromInt(st.remaining_proceeds)
        price_per_common_share ==
            IF common_shares(ct) > 0
            THEN RatDiv(common_proceeds, FromInt(ct.total_shares))
            ELSE FromInt(0)
        option_value_per_share ==
            OptionValuePerShare(ct, price_per_common_share)
        total_option_value ==
            RatMul(option_value_per_share, FromInt(ct.your_options))
    IN  ScenarioResult(sc.name, sc.exit_valuation, total_option_value,
                       price_per_common_share, common_proceeds, NoError)

Phase3(ct, sc, st) ==
    LET common_proceeds ==
            IF st.total_participating_shares > 0
            THEN RatMul(RatDiv(FromInt(st.remaining_proceeds),
                               FromInt(st.total_participating_shares)),
                        FromInt(common_shares(ct)))
            ELSE FromInt(st.remaining_proceeds)
        price_per_common_share ==
            IF common_shares(ct) > 0
            THEN RatDiv(common_proceeds, FromInt(common_shares(ct)))
            ELSE FromInt(0)
        option_value_per_share ==
            OptionValuePerShare(ct, price_per_common_share)
        total_option_value ==
            RatMul(option_value_per_share, FromInt(ct.your_options))
    IN  ScenarioResult(sc.name, sc.exit_valuation, total_option_value,
                       price_per_common_share, common_proceeds, NoError)

ErrorResult(sc) ==
    ScenarioResult(sc.name, sc.exit_valuation, FromInt(0), FromInt(0),
                   FromInt(0), ConfigError)

RECURSIVE RunPhase1(_, _)
RunPhase1(st, rounds) ==
    IF rounds = <<>> THEN st
    ELSE RunPhase1(Phase1Body(st, Head(rounds)), Tail(rounds))

RECURSIVE RunPhase2(_, _, _, _)
RunPhase2(ct, sc, st, rounds) ==
    IF rounds = <<>> THEN st
    ELSE RunPhase2(ct, sc, Phase2Body(ct, sc, st, Head(rounds)), Tail(rounds))

(* variant: the proceeds pool does not start from the exit valuation *)
Phase1StartEmpty(sc) ==
    [remaining_proceeds |-> 0,
     participating_shareholders |-> <<>>,
     preference_payouts |-> EmptyPayouts,
     total_participating_shares |-> 0]

Phase1Start(sc) ==
    [remaining_proceeds |-> sc.exit_valuation,
     participating_shareholders |-> <<>>,
     preference_payouts |-> EmptyPayouts,
     total_participating_shares |-> 0]

Phase2Start(ct, st) ==
    [st EXCEPT !.total_participating_shares =
                   ParticipatingPool(ct, st.participating_shareholders)]

CalculateScenario(ct, sc) ==
    IF HasConfigError(ct)
    THEN ErrorResult(sc)
    ELSE LET sorted == SortedRounds(ct.funding_rounds)
             after1 == RunPhase1(Phase1Start(sc), sorted)
             after2 == RunPhase2(ct, sc, Phase2Start(ct, after1), sorted)
         IN  Phase3(ct, sc, after2)

(***************************************************************************)
(* Input space.                                                            *)
(***************************************************************************)
(* A round the waterfall skips (no shares or no capital) never has its     *)
(* multiple or its participation flag read: one representative of each.    *)
RoundTerms ==
    {r \in [shares_issued : ShareCounts,
            capital_raised : CapitalAmounts,
            liquidation_multiple : Multiples,
            is_participating : BOOLEAN] :
        ~IsProcessed(r) => (r.liquidation_multiple = 1 /\ ~r.is_participating)}

FundingRound(name, terms) ==
    [name |-> name,
     shares_issued |-> terms.shares_issued,
     capital_raised |-> terms.capital_raised,
     liquidation_multiple |-> terms.liquidation_multiple,
     is_participating |-> terms.is_participating]

(* Cap tables in financing order, as create_cap_table builds them: the     *)
(* i-th round carries the i-th name of Seed, Series A, Series B, ...       *)
FinancedRounds ==
    UNION {{[i \in 1..k |-> FundingRound(KnownRounds[i], terms[i])] :
               terms \in [1..k -> RoundTerms]} : k \in 0..MaxRounds}

CapTables ==
    [total_shares : 0..MaxTotalShares,
     your_options : OptionCounts,
     strike_price : StrikePrices,
     funding_rounds : FinancedRounds]

(* Cap tables built directly, with free round names: known names in any    *)
(* order, names outside the known list, and repeated names.                *)
RoundNames == {"Seed", "Series A", "Series B", "Series C", "Bridge", "Note"}

NamedTerms ==
    {t \in RoundTerms : t.shares_issued = 1 /\ t.capital_raised = 1}

NamedRounds ==
    UNION {{[i \in 1..k |-> FundingRound(names[i], terms[i])] :
               names \in [1..k -> RoundNames],
               terms \in [1..k -> NamedTerms]} :
           k \in 0..MaxRounds}

NamedCapTables ==
    [total_shares : 1..MaxTotalShares,
     your_options : {1},
     strike_price : {0},
     funding_rounds : NamedRounds]

ScenarioNames ==
    <<"Scenario 1", "Scenario 2", "Scenario 3", "Scenario 4", "Scenario 5">>

ExitScenario(v) ==
    [name |-> ScenarioNames[(v % Len(ScenarioNames)) + 1],
     exit_valuation |-> v]

ExitScenarios == {ExitScenario(v) : v \in ExitValuations}

NoScenario == [name |-> "", exit_valuation |-> 0]
NoResult == ScenarioResult("", 0, FromInt(0), FromInt(0), FromInt(0), "")
EmptyLog == [i \in {} |-> 0]

(***************************************************************************)
(* State: the calculator's cap table; the running call of                  *)
(* calculate_scenario (its argument, position and local variables) and the *)
(* value it returned; the running call of calculate_multiple_scenarios     *)
(* (its argument, loop position and result list).  payout_log and          *)
(* refund_log record, per position in sorted_rounds, the local             *)
(* preference_payout of Phase 1 and the local preference_value refunded in *)
(* Phase 2.  investment_cost and roi_data are the argument and the list    *)
(* built by create_roi_analysis; roi_log records what roi_percentage       *)
(* returned for each result; best_result is the result process_inputs      *)
(* picks for the detailed view and waterfall_common the 'Common Stock'     *)
(* payout create_liquidation_waterfall computes for it.  inputs are the    *)
(* raw parameters handed to create_cap_table, calculate_single_scenario    *)
(* or process_inputs; single_result is what calculate_single_scenario      *)
(* returned and message the text process_inputs returned.                  *)
(***************************************************************************)
VARIABLES cap_table, exit_scenario, pc, sorted_rounds, idx,
          remaining_proceeds, participating_shareholders, preference_payouts,
          total_participating_shares, result, payout_log, refund_log,
          scenarios, pos, results, investment_cost, roi_data, roi_log,
          best_result, waterfall_common, inputs, single_result, message

vars == <<cap_table, exit_scenario, pc, sorted_rounds, idx,
          remaining_proceeds, participating_shareholders, preference_payouts,
          total_participating_shares, result, payout_log, refund_log,
          scenarios, pos, results, investment_cost, roi_data, roi_log,
          best_result, waterfall_common, inputs, single_result, message>>

loopVars == <<scenarios, pos, results>>

callerVars == <<inputs, single_result, message>>

chartVars ==
    <<investment_cost, roi_data, roi_log, best_result, waterfall_common,
      inputs, single_result, message>>

Locals ==
    [remaining_proceeds |-> remaining_proceeds,
     participating_shareholders |-> participating_shareholders,
     preference_payouts |-> preference_payouts,
     total_participating_shares |-> total_participating_shares]

SetLocals(st) ==
    /\ remaining_proceeds' = st.remaining_proceeds
    /\ participating_shareholders' = st.participating_shareholders
    /\ preference_payouts' = st.preference_payouts
    /\ total_participating_shares' = st.total_participating_shares

NoInputs == [total_shares |-> 0]
NoSingleResult == [error |-> ""]

InitState(ct, in, start) ==
    /\ cap_table = ct
    /\ exit_scenario = NoScenario
    /\ pc = start
    /\ sorted_rounds = <<>>
    /\ idx = 0
    /\ remaining_proceeds = 0
    /\ participating_shareholders = <<>>
    /\ preference_payouts = EmptyPayouts
    /\ total_participating_shares = 0
    /\ result = NoResult
    /\ payout_log = EmptyLog
    /\ refund_log = EmptyLog
    /\ scenarios = <<>>
    /\ pos = 0
    /\ results = <<>>
    /\ investment_cost = 0
    /\ roi_data = <<>>
    /\ roi_log = <<>>
    /\ best_result = NoResult
    /\ waterfall_common = FromInt(0)
    /\ inputs = in
    /\ single_result = NoSingleResult
    /\ message = ""

InitWith(ct) == InitState(ct, NoInputs, "idle")

Init == \E ct \in CapTables : InitWith(ct)

(***************************************************************************)
(* calculate_scenario, entered with argument sc.                           *)
(***************************************************************************)
(* lines 85-93: the configuration check returns the error result *)
EnterConfigError(sc) ==
    /\ HasConfigError(cap_table)
    /\ exit_scenario' = sc
    /\ result' = ErrorResult(sc)
    /\ pc' = "done"
    /\ sorted_rounds' = <<>>
    /\ idx' = 0
    /\ SetLocals(Phase1Start(NoScenario))
    /\ payout_log' = EmptyLog
    /\ refund_log' = EmptyLog
    /\ UNCHANGED cap_table
    /\ UNCHANGED chartVars

(* variant: the rounds are sorted in place (list.sort) instead of copied *)
EnterPhase1SortInPlace(sc) ==
    /\ ~HasConfigError(cap_table)
    /\ exit_scenario' = sc
    /\ sorted_rounds' = SortedRounds(cap_table.funding_rounds)
    /\ SetLocals(Phase1Start(sc))
    /\ idx' = 1
    /\ pc' = "phase1"
    /\ result' = NoResult
    /\ payout_log' = EmptyLog
    /\ refund_log' = EmptyLog
    /\ cap_table' = [cap_table EXCEPT
                        !.funding_rounds = SortedRounds(cap_table.funding_rounds)]
    /\ UNCHANGED chartVars

(* lines 96-105: Phase 1 set-up and the sort *)
EnterPhase1(sc) ==
    /\ ~HasConfigError(cap_table)
    /\ exit_scenario' = sc
    /\ sorted_rounds' = SortedRounds(cap_table.funding_rounds)
    /\ SetLocals(Phase1Start(sc))
    /\ idx' = 1
    /\ pc' = "phase1"
    /\ result' = NoResult
    /\ payout_log' = EmptyLog
    /\ refund_log' = EmptyLog
    /\ UNCHANGED cap_table
    /\ UNCHANGED chartVars

(* a direct call of calculate_scenario by the owner of the calculator *)
ReturnConfigError(sc) ==
    /\ pc = "idle"
    /\ EnterConfigError(sc)
    /\ UNCHANGED loopVars

BeginPhase1(sc) ==
    /\ pc = "idle"
    /\ EnterPhase1(sc)
    /\ UNCHANGED loopVars

(* lines 107-117: one iteration of the Phase 1 loop *)
Phase1Step ==
    /\ pc = "phase1"
    /\ idx <= Len(sorted_rounds)
    /\ LET round == sorted_rounds[idx]
           st == Phase1Body(Locals, round)
       IN  /\ SetLocals(st)
           /\ payout_log' =
                IF IsProcessed(round)
                THEN (idx :> Min(remaining_proceeds, liquidation_preference(round)))
                         @@ payout_log
                ELSE payout_log
    /\ idx' = idx + 1
    /\ UNCHANGED <<cap_table, exit_scenario, pc, sorted_rounds, result, refund_log>>
    /\ UNCHANGED loopVars
    /\ UNCHANGED chartVars

(* lines 120-121: the pool of common and participating preferred shares *)
BeginPhase2 ==
    /\ pc = "phase1"
    /\ idx > Len(sorted_rounds)
    /\ SetLocals(Phase2Start(cap_table, Locals))
    /\ idx' = 1
    /\ pc' = "phase2"
    /\ UNCHANGED <<cap_table, exit_scenario, sorted_rounds, result,
                   payout_log, refund_log>>
    /\ UNCHANGED loopVars
    /\ UNCHANGED chartVars

(* lines 124-135: one iteration of the conversion loop *)
Phase2Step ==
    /\ pc = "phase2"
    /\ idx <= Len(sorted_rounds)
    /\ LET round == sorted_rounds[idx]
           st == Phase2Body(cap_table, exit_scenario, Locals, round)
       IN  /\ SetLocals(st)
           /\ refund_log' =
                IF Converts(cap_table, exit_scenario, preference_payouts, round)
                THEN (idx :> PreferenceValue(preference_payouts, round)) @@ refund_log
                ELSE refund_log
    /\ idx' = idx + 1
    /\ UNCHANGED <<cap_table, exit_scenario, pc, sorted_rounds, result, payout_log>>
    /\ UNCHANGED loopVars
    /\ UNCHANGED chartVars

(* lines 138-155: final distribution, option value and the returned result *)
Phase3Return ==
    /\ pc = "phase2"
    /\ idx > Len(sorted_rounds)
    /\ result' = Phase3(cap_table, exit_scenario, Locals)
    /\ pc' = "done"
    /\ UNCHANGED <<cap_table, exit_scenario, sorted_rounds, idx,
                   remaining_proceeds, participating_shareholders,
                   preference_payouts, total_participating_shares,
                   payout_log, refund_log>>
    /\ UNCHANGED loopVars
    /\ UNCHANGED chartVars

Next ==
    \/ \E sc \in ExitScenarios : ReturnConfigError(sc)
    \/ \E sc \in ExitScenarios : BeginPhase1(sc)
    \/ Phase1Step
    \/ BeginPhase2
    \/ Phase2Step
    \/ Phase3Return

Spec == Init /\ [][Next]_vars

InitNamed == \E ct \in NamedCapTables : InitWith(ct)

SpecNamed == InitNamed /\ [][Next]_vars

(***************************************************************************)
(* calculate_multiple_scenarios (lines 157-164): the loop over the         *)
(* scenario list, each qualifying entry running calculate_scenario.        *)
(***************************************************************************)
(* variant: a zero valuation is not skipped *)
QualifiesNonNegative(scenario) == scenario.exit_valuation >= 0

Qualifies(scenario) == scenario.exit_valuation > 0

ScenarioLists == UNION {[1..n -> ExitScenarios] : n \in 0..MaxScenarios}

MultiCapTables ==
    {ct \in CapTables :
        /\ Len(ct.funding_rounds) <= 1
        /\ ct.your_options = 1
        /\ ct.strike_price = 0}

CallMultiple(list) ==
    /\ pc = "idle"
    /\ scenarios' = list
    /\ pos' = 1
    /\ results' = <<>>
    /\ pc' = "loop"
    /\ UNCHANGED <<cap_table, exit_scenario, sorted_rounds, idx,
                   remaining_proceeds, participating_shareholders,
                   preference_payouts, total_participating_shares, result,
                   payout_log, refund_log>>
    /\ UNCHANGED chartVars

LoopSkip ==
    /\ pc = "loop"
    /\ pos <= Len(scenarios)
    /\ ~Qualifies(scenarios[pos])
    /\ pos' = pos + 1
    /\ UNCHANGED <<cap_table, exit_scenario, pc, sorted_rounds, idx,
                   remaining_proceeds, participating_shareholders,
                   preference_payouts, total_participating_shares, result,
                   payout_log, refund_log, scenarios, results>>
    /\ UNCHANGED chartVars

LoopCallConfigError ==
    /\ pc = "loop"
    /\ pos <= Len(scenarios)
    /\ Qualifies(scenarios[pos])
    /\ EnterConfigError(scenarios[pos])
    /\ UNCHANGED loopVars

LoopCallPhase1 ==
    /\ pc = "loop"
    /\ pos <= Len(scenarios)
    /\ Qualifies(scenarios[pos])
    /\ EnterPhase1(scenarios[pos])
    /\ UNCHANGED loopVars

(* variant: the new result is put in front of the list *)
LoopAppendPrepend ==
    /\ pc = "done"
    /\ pos \in 1..Len(scenarios)
    /\ results' = <<result>> \o results
    /\ pos' = pos + 1
    /\ pc' = "loop"
    /\ UNCHANGED <<cap_table, exit_scenario, sorted_rounds, idx,
                   remaining_proceeds, participating_shareholders,
                   preference_payouts, total_participating_shares, result,
                   payout_log, refund_log, scenarios>>
    /\ UNCHANGED chartVars

LoopAppend ==
    /\ pc = "done"
    /\ pos \in 1..Len(scenarios)
    /\ results' = Append(results, result)
    /\ pos' = pos + 1
    /\ pc' = "loop"
    /\ UNCHANGED <<cap_table, exit_scenario, sorted_rounds, idx,
                   remaining_proceeds, participating_shareholders,
                   preference_payouts, total_participating_shares, result,
                   payout_log, refund_log, scenarios>>
    /\ UNCHANGED chartVars

LoopReturn ==
    /\ pc = "loop"
    /\ pos > Len(scenarios)
    /\ pc' = "returned"
    /\ UNCHANGED <<cap_table, exit_scenario, sorted_rounds, idx,
                   remaining_proceeds, participating_shareholders,
                   preference_payouts, total_participating_shares, result,
                   payout_log, refund_log, scenarios, pos, results>>
    /\ UNCHANGED chartVars

InitMulti == \E ct \in MultiCapTables : InitWith(ct)

NextMulti ==
    \/ \E list \in ScenarioLists : CallMultiple(list)
    \/ LoopSkip
    \/ LoopCallConfigError
    \/ LoopCallPhase1
    \/ Phase1Step
    \/ BeginPhase2
    \/ Phase2Step
    \/ Phase3Return
    \/ LoopAppend
    \/ LoopReturn

SpecMulti == InitMulti /\ [][NextMulti]_vars

(***************************************************************************)
(* The worked examples: a company of 10,000,000 fully diluted shares, a    *)
(* grant of 50,000 options at a strike price of $0.10, one Seed round of   *)
(* 2,000,000 shares for $2,000,000 at a 1.0x preference, participating or  *)
(* not, and exits in whole millions of dollars.  Money is counted in       *)
(* tenths of a dollar, which makes the strike price the integer 1; every   *)
(* step of calculate_scenario is linear in the money unit.  The second     *)
(* cap table leaves no common shares beside the Seed round.                *)
(***************************************************************************)
Dollars(d) == 10 * d

ExampleCapTable(total, participating) ==
    [total_shares |-> total,
     your_options |-> 50000,
     strike_price |-> 1,
     funding_rounds |->
         <<FundingRound("Seed",
                        [shares_issued |-> 2000000,
                         capital_raised |-> Dollars(2000000),
                         liquidation_multiple |-> 1,
                         is_participating |-> participating])>>]

ExampleCapTables ==
    {ExampleCapTable(total, participating) :
        total \in {2000000, 10000000}, participating \in BOOLEAN}

ExampleScenarios ==
    {[name |-> "Exit", exit_valuation |-> Dollars(1000000 * m)] :
        m \in 1..MaxExitMillions}

InitExample == \E ct \in ExampleCapTables : InitWith(ct)

NextExample ==
    \/ \E sc \in ExampleScenarios : ReturnConfigError(sc)
    \/ \E sc \in ExampleScenarios : BeginPhase1(sc)
    \/ Phase1Step
    \/ BeginPhase2
    \/ Phase2Step
    \/ Phase3Return

SpecExample == InitExample /\ [][NextExample]_vars

(***************************************************************************)
(* ScenarioResult.roi_percentage and EquityCharts.create_roi_analysis, as  *)
(* process_inputs calls it on the list calculate_multiple_scenarios        *)
(* returned.  float('inf') is the fraction 1/0; it is not below any        *)
(* number.                                                                 *)
(***************************************************************************)
DisplayCap == 999999

Infinite == [num |-> 1, den |-> 0]

roi_percentage(res, cost) ==
    IF cost <= 0
    THEN IF RatLess(FromInt(0), res.option_value) THEN Infinite ELSE FromInt(0)
    ELSE RatMul(RatDiv(RatSub(res.option_value, FromInt(cost)), FromInt(cost)),
                FromInt(100))

RoiLess(roi, bound) == roi # Infinite /\ RatLess(roi, FromInt(bound))

(* variant: the returned value is plotted without a cap *)
DisplayRoiUncapped(roi) == roi

DisplayRoi(roi) == IF RoiLess(roi, DisplayCap) THEN roi ELSE FromInt(DisplayCap)

RoiEntry(res, cost) ==
    [scenario |-> res.scenario_name,
     roi |-> DisplayRoi(roi_percentage(res, cost)),
     absolute_gain |-> RatSub(res.option_value, FromInt(cost))]

(* interface.py line 181: max(results, key=option_value) walks the list    *)
(* and replaces its candidate only by a strictly larger one.               *)
(* variant: a later result of equal value replaces the candidate *)
ReplacesBestOnTie(best, candidate) ==
    RatLeq(best.option_value, candidate.option_value)

ReplacesBest(best, candidate) ==
    RatLess(best.option_value, candidate.option_value)

RECURSIVE MaxFrom(_, _)
MaxFrom(best, rest) ==
    IF rest = <<>> THEN best
    ELSE MaxFrom(IF ReplacesBest(best, Head(rest)) THEN Head(rest) ELSE best,
                 Tail(rest))

MaxByOptionValue(list) == MaxFrom(Head(list), Tail(list))

SelectBestResult ==
    /\ pc = "returned"
    /\ results # <<>>
    /\ best_result' = MaxByOptionValue(results)
    /\ pc' = "best"
    /\ UNCHANGED <<cap_table, exit_scenario, sorted_rounds, idx,
                   remaining_proceeds, participating_shareholders,
                   preference_payouts, total_participating_shares, result,
                   payout_log, refund_log, scenarios, pos, results,
                   investment_cost, roi_data, roi_log, waterfall_common>>
    /\ UNCHANGED callerVars

(* charts.py lines 80-127: create_liquidation_waterfall runs its own       *)
(* Phase 1 (the same sort and loop) and then shares what remains between   *)
(* common and the participating rounds; it has no conversion loop.         *)
WaterfallCommonProceeds(ct, exit_valuation) ==
    LET after1 == RunPhase1(Phase1Start([name |-> "",
                                         exit_valuation |-> exit_valuation]),
                            SortedRounds(ct.funding_rounds))
        pool == ParticipatingPool(ct, after1.participating_shareholders)
    IN  IF pool > 0
        THEN RatMul(RatDiv(FromInt(after1.remaining_proceeds), FromInt(pool)),
                    FromInt(common_shares(ct)))
        ELSE FromInt(after1.remaining_proceeds)

(* interface.py lines 182-186 *)
CreateLiquidationWaterfall ==
    /\ pc = "best"
    /\ waterfall_common' =
          WaterfallCommonProceeds(cap_table, best_result.exit_valuation)
    /\ pc' = "waterfall"
    /\ UNCHANGED <<cap_table, exit_scenario, sorted_rounds, idx,
                   remaining_proceeds, participating_shareholders,
                   preference_payouts, total_participating_shares, result,
                   payout_log, refund_log, scenarios, pos, results,
                   investment_cost, roi_data, roi_log, best_result>>
    /\ UNCHANGED callerVars

(* interface.py lines 190-191, charts.py lines 170-182 *)
CreateRoiAnalysis ==
    /\ pc = "waterfall"
    /\ investment_cost' = cap_table.your_options * cap_table.strike_price
    /\ roi_data' = [i \in 1..Len(results) |->
                       RoiEntry(results[i],
                                cap_table.your_options * cap_table.strike_price)]
    /\ roi_log' = [i \in 1..Len(results) |->
                      roi_percentage(results[i],
                                     cap_table.your_options * cap_table.strike_price)]
    /\ pc' = "charted"
    /\ UNCHANGED <<cap_table, exit_scenario, sorted_rounds, idx,
                   remaining_proceeds, participating_shareholders,
                   preference_payouts, total_participating_shares, result,
                   payout_log, refund_log, scenarios, pos, results,
                   best_result, waterfall_common>>
    /\ UNCHANGED callerVars

(* Companies of at most two shares with or without a one-share Seed round, *)
(* grants and strike prices up to 2, and exits small and large enough for  *)
(* a return on either side of the display cap.                             *)
RoiValuations == {0, 1, 3, 10001, 10002}

RoiScenarioLists ==
    UNION {[1..n -> {ExitScenario(v) : v \in RoiValuations}] :
              n \in 0..MaxScenarios}

RoiCapTables ==
    [total_shares : 0..2,
     your_options : 0..2,
     strike_price : 0..2,
     funding_rounds :
         {<<>>,
          <<FundingRound("Seed", [shares_issued |-> 1, capital_raised |-> 1,
                                  liquidation_multiple |-> 1,
                                  is_participating |-> FALSE])>>}]

InitRoi == \E ct \in RoiCapTables : InitWith(ct)

NextRoi ==
    \/ \E list \in RoiScenarioLists : CallMultiple(list)
    \/ LoopSkip
    \/ LoopCallConfigError
    \/ LoopCallPhase1
    \/ Phase1Step
    \/ BeginPhase2
    \/ Phase2Step
    \/ Phase3Return
    \/ LoopAppend
    \/ LoopReturn
    \/ SelectBestResult
    \/ CreateLiquidationWaterfall
    \/ CreateRoiAnalysis

SpecRoi == InitRoi /\ [][NextRoi]_vars

(***************************************************************************)
(* One EquityCalculator called again and again: its owner calls            *)
(* calculate_scenario or calculate_multiple_scenarios whenever no call is  *)
(* running, the state of the previous calls still in place.                *)
(***************************************************************************)
OwnersTurn ==
    \/ pc \in {"idle", "returned"}
    \/ pc = "done" /\ pos \notin 1..Len(scenarios)

NextCallConfigError(sc) ==
    /\ OwnersTurn
    /\ EnterConfigError(sc)
    /\ UNCHANGED loopVars

NextCallPhase1(sc) ==
    /\ OwnersTurn
    /\ EnterPhase1(sc)
    /\ UNCHANGED loopVars

NextCallMultiple(list) ==
    /\ OwnersTurn
    /\ scenarios' = list
    /\ pos' = 1
    /\ results' = <<>>
    /\ pc' = "loop"
    /\ UNCHANGED <<cap_table, exit_scenario, sorted_rounds, idx,
                   remaining_proceeds, participating_shareholders,
                   preference_payouts, total_participating_shares, result,
                   payout_log, refund_log>>
    /\ UNCHANGED chartVars

CallValuations == {0, 1, 4}

CallScenarios == {ExitScenario(v) : v \in CallValuations}

CallLists == UNION {[1..n -> CallScenarios] : n \in 0..(MaxScenarios + 1)}

CallCapTables ==
    [total_shares : 2..3,
     your_options : {1},
     strike_price : {0},
     funding_rounds :
         UNION {{[i \in 1..k |-> FundingRound(KnownRounds[i], terms[i])] :
                    terms \in [1..k -> NamedTerms]} : k \in 0..2}]

InitCalls == \E ct \in CallCapTables : InitWith(ct)

NextCalls ==
    \/ \E sc \in CallScenarios : NextCallConfigError(sc)
    \/ \E sc \in CallScenarios : NextCallPhase1(sc)
    \/ \E list \in CallLists : NextCallMultiple(list)
    \/ LoopSkip
    \/ LoopCallConfigError
    \/ LoopCallPhase1
    \/ Phase1Step
    \/ BeginPhase2
    \/ Phase2Step
    \/ Phase3Return
    \/ LoopAppend
    \/ LoopReturn

SpecCalls == InitCalls /\ [][NextCalls]_vars

(* the stepwise run returns what the composition of its parts returns *)
StepwiseAgrees ==
    pc = "done" => result = CalculateScenario(cap_table, exit_scenario)

(***************************************************************************)
(* Vocabulary of the properties.                                           *)
(***************************************************************************)
RECURSIVE SumLog(_, _)
SumLog(log, S) ==
    IF S = {} THEN 0
    ELSE LET i == CHOOSE x \in S : TRUE IN log[i] + SumLog(log, S \ {i})

TotalOf(log) == SumLog(log, DOMAIN log)

Returned == pc = "done"
ReturnedValue == Returned /\ result.error = NoError
Valuation == exit_scenario.exit_valuation

(* price per eligible share times the shares of the round at position i *)
ShareTake(i) ==
    RatMul(result.price_per_share, FromInt(sorted_rounds[i].shares_issued))

RECURSIVE SumTakes(_)
SumTakes(S) ==
    IF S = {} THEN FromInt(0)
    ELSE LET i == CHOOSE x \in S : TRUE IN RatAdd(ShareTake(i), SumTakes(S \ {i}))

ParticipatingPositions ==
    {i \in DOMAIN payout_log : sorted_rounds[i].is_participating}

ConvertedPositions == DOMAIN refund_log

(***************************************************************************)
(* C1 as stated - Conservation: after calculate_scenario on a valid cap    *)
(* table and a positive valuation V, all Phase-1 preference payouts plus   *)
(* the participation payouts of the participating rounds plus common       *)
(* proceeds equal V, also when a non-participating round converted.        *)
(***************************************************************************)
C1_ConservationAsStated ==
    (ReturnedValue /\ Valuation > 0) =>
        RatAdd(FromInt(TotalOf(payout_log)),
               RatAdd(SumTakes(ParticipatingPositions), result.common_proceeds))
          = FromInt(Valuation)

(***************************************************************************)
(* C1 amended - Conservation: the Phase-1 preference payouts less the      *)
(* amounts refunded in Phase 2, plus price per eligible share times the    *)
(* shares of every participating and every converted round, plus common    *)
(* proceeds equal V.                                                       *)
(***************************************************************************)
C1_Conservation ==
    (ReturnedValue /\ Valuation > 0) =>
        RatAdd(FromInt(TotalOf(payout_log) - TotalOf(refund_log)),
               RatAdd(SumTakes(ParticipatingPositions \cup ConvertedPositions),
                      result.common_proceeds))
          = FromInt(Valuation)

C1_Witness ==
    /\ ReturnedValue
    /\ Valuation > 0
    /\ \E i \in ConvertedPositions : refund_log[i] > 0
    /\ ParticipatingPositions # {}
    /\ result.common_proceeds.num > 0

(***************************************************************************)
(* C2 - Monotonicity: for a fixed cap table and positive valuations        *)
(* V1 <= V2 the total option value returned for V2 is not smaller than the *)
(* one returned for V1.                                                    *)
(***************************************************************************)
C2_Monotonic ==
    (Returned /\ Valuation > 0) =>
        \A sc2 \in ExitScenarios :
            Valuation <= sc2.exit_valuation =>
                RatLeq(result.option_value,
                       CalculateScenario(cap_table, sc2).option_value)

(***************************************************************************)
(* C3 - Non-negativity: the option value per share and the total option    *)
(* value of a returned result are >= 0, on the normal path and on the      *)
(* configuration-error path, for every valuation.                          *)
(***************************************************************************)
C3_NonNegative ==
    Returned =>
        /\ RatLeq(FromInt(0), result.option_value)
        /\ result.error = NoError =>
               RatLeq(FromInt(0),
                      OptionValuePerShare(cap_table, result.price_per_share))

C3_Witness ==
    /\ ReturnedValue
    /\ cap_table.your_options > 0
    /\ RatLess(result.price_per_share, FromInt(cap_table.strike_price))
    /\ result.option_value = FromInt(0)

(***************************************************************************)
(* C4 - Conversion correctness: a processed non-participating round with S *)
(* of T shares converts (its Phase-1 payout is refunded, its shares join   *)
(* the pool) iff (S/T) x V is strictly greater than the payout that round  *)
(* received in Phase 1.                                                    *)
(***************************************************************************)
C4_ConvertsIffBetterThanOwnPayout ==
    pc \in {"phase2", "done"} =>
        \A i \in DOMAIN payout_log :
            (i < idx /\ ~sorted_rounds[i].is_participating) =>
                /\ i \in ConvertedPositions <=>
                     RatLess(FromInt(payout_log[i]),
                             ConversionValue(cap_table, exit_scenario,
                                             sorted_rounds[i]))
                /\ i \in ConvertedPositions => refund_log[i] = payout_log[i]

(***************************************************************************)
(* C5 - Whichever yields more: a round that converted ends with a take     *)
(* (price per eligible share x its shares) of at least the Phase-1 payout  *)
(* it gave up.                                                             *)
(***************************************************************************)
C5_ConversionNeverWorse ==
    (ReturnedValue /\ Valuation > 0) =>
        \A i \in ConvertedPositions :
            RatLeq(FromInt(payout_log[i]), ShareTake(i))

(***************************************************************************)
(* C6 - Payout priority: Phase 1 processes Series C, Series B, Series A,   *)
(* Seed in this order and every round of another name after all of them,   *)
(* rounds of other names keeping their cap-table order.                    *)
(***************************************************************************)
StatedRank(name) ==
    CASE name = "Series C" -> 0
      [] name = "Series B" -> 1
      [] name = "Series A" -> 2
      [] name = "Seed" -> 3
      [] OTHER -> 4

IsUnknown(round) == StatedRank(round.name) = 4

C6_PayoutPriority ==
    pc \in {"phase1", "phase2", "done"} /\ sorted_rounds # <<>> =>
        /\ \A i \in 1..Len(sorted_rounds) :
             \A j \in 1..Len(sorted_rounds) :
                 (pc = "phase1" /\ i < idx /\ idx <= j) =>
                     StatedRank(sorted_rounds[i].name)
                        <= StatedRank(sorted_rounds[j].name)
        /\ SelectSeq(sorted_rounds, IsUnknown)
             = SelectSeq(cap_table.funding_rounds, IsUnknown)

(***************************************************************************)
(* C7 - Configuration error: with common shares <= 0 the call returns the  *)
(* error result (error text, zero option value, price and proceeds, the    *)
(* scenario's name and valuation) and runs no phase; with common shares    *)
(* > 0 the returned error field is empty.                                  *)
(***************************************************************************)
C7_ConfigurationError ==
    /\ common_shares(cap_table) <= 0 =>
         /\ pc \in {"idle", "done"}
         /\ sorted_rounds = <<>>
         /\ payout_log = EmptyLog /\ refund_log = EmptyLog
         /\ Returned =>
              result = ScenarioResult(exit_scenario.name, Valuation,
                                      FromInt(0), FromInt(0), FromInt(0),
                                      "Preferred shares exceed total shares")
    /\ (common_shares(cap_table) > 0 /\ Returned) => result.error = NoError

C7_Witness ==
    /\ Returned
    /\ common_shares(cap_table) = 0
    /\ cap_table.funding_rounds # <<>>
    /\ Valuation > 0
    /\ result.error = ConfigError

(***************************************************************************)
(* C8 - Inert rounds: removing a round with zero shares issued or zero     *)
(* capital raised leaves the result of calculate_scenario unchanged.       *)
(***************************************************************************)
RemoveRound(ct, i) ==
    [ct EXCEPT !.funding_rounds =
        SubSeq(@, 1, i - 1) \o SubSeq(@, i + 1, Len(@))]

C8_InertRounds ==
    Returned =>
        \A i \in 1..Len(cap_table.funding_rounds) :
            ~IsProcessed(cap_table.funding_rounds[i]) =>
                result = CalculateScenario(RemoveRound(cap_table, i), exit_scenario)

(***************************************************************************)
(* C9 - Zero-preferred case: with no funding rounds and total shares > 0   *)
(* the call returns common proceeds V and price per common share           *)
(* V / total_shares, with no error.                                        *)
(***************************************************************************)
C9_ZeroPreferred ==
    (Returned /\ cap_table.funding_rounds = <<>> /\ cap_table.total_shares > 0) =>
        /\ result.error = NoError
        /\ result.common_proceeds = FromInt(Valuation)
        /\ result.price_per_share = Rat(Valuation, cap_table.total_shares)

C9_Witness ==
    /\ Returned
    /\ cap_table.funding_rounds = <<>>
    /\ cap_table.total_shares = 3
    /\ Valuation = 4
    /\ result.price_per_share = [num |-> 4, den |-> 3]

(***************************************************************************)
(* C10 - Scenario skip and independence: calculate_multiple_scenarios      *)
(* produces no record for an entry with valuation <= 0, and for every      *)
(* other entry the record calculate_scenario returns for that entry alone, *)
(* whatever the other entries of the list are.                             *)
(***************************************************************************)
C10_SkipAndIndependence ==
    pc = "returned" =>
        /\ \A i \in 1..Len(scenarios) :
             IF scenarios[i].exit_valuation <= 0
             THEN ~\E j \in 1..Len(results) :
                      /\ results[j].scenario_name = scenarios[i].name
                      /\ results[j].exit_valuation = scenarios[i].exit_valuation
             ELSE \E j \in 1..Len(results) :
                      results[j] = CalculateScenario(cap_table, scenarios[i])
        /\ Len(results) =
             Cardinality({i \in 1..Len(scenarios) : scenarios[i].exit_valuation > 0})

C10_Witness ==
    /\ pc = "returned"
    /\ Len(scenarios) = 2
    /\ scenarios[1].exit_valuation = 0
    /\ scenarios[2].exit_valuation > 0
    /\ Len(results) = 1
    /\ results[1].error = NoError
    /\ results[1].exit_valuation = scenarios[2].exit_valuation

(***************************************************************************)
(* C11 - Result ordering: calculate_multiple_scenarios returns exactly one *)
(* result per scenario with a positive valuation, in the relative order of *)
(* the input list (the i-th result carries the name and valuation of the   *)
(* i-th positive scenario), and an empty list when none is positive.       *)
(***************************************************************************)
IsPositive(scenario) == scenario.exit_valuation > 0

C11_ResultOrdering ==
    pc = "returned" =>
        LET positive == SelectSeq(scenarios, IsPositive)
        IN  /\ Len(results) = Len(positive)
            /\ \A i \in 1..Len(results) :
                 /\ i <= Len(positive)
                 /\ results[i].scenario_name = positive[i].name
                 /\ results[i].exit_valuation = positive[i].exit_valuation
            /\ (positive = <<>>) => (results = <<>>)

C11_Witness ==
    /\ pc = "returned"
    /\ Len(scenarios) = 2
    /\ scenarios[1].exit_valuation > scenarios[2].exit_valuation
    /\ scenarios[2].exit_valuation > 0
    /\ Len(results) = 2
    /\ results[1].exit_valuation = scenarios[1].exit_valuation
    /\ results[1].scenario_name # results[2].scenario_name

(***************************************************************************)
(* C12 - Literal example 1: 10,000,000 total shares, 50,000 options at     *)
(* strike 0.10, a non-participating Seed round (2,000,000 shares,          *)
(* 2,000,000 capital, multiple 1.0) and an exit of 50,000,000: the Seed    *)
(* round converts, the eligible pool is 10,000,000 shares, the price per   *)
(* common share is 5.00, common proceeds are 40,000,000 and the total      *)
(* option value is 245,000.                                                *)
(***************************************************************************)
C12_Example1 ==
    (Returned /\ cap_table = ExampleCapTable(10000000, FALSE)
              /\ Valuation = Dollars(50000000)) =>
        /\ ConvertedPositions = {1}
        /\ total_participating_shares = 10000000
        /\ result.price_per_share = FromInt(Dollars(5))
        /\ result.common_proceeds = FromInt(Dollars(40000000))
        /\ result.option_value = FromInt(Dollars(245000))
        /\ result.error = NoError

C12_Witness ==
    /\ Returned
    /\ cap_table = ExampleCapTable(10000000, FALSE)
    /\ Valuation = Dollars(50000000)
    /\ refund_log = (1 :> Dollars(2000000))

(***************************************************************************)
(* C13 - Literal example 2: the same cap table with a participating Seed   *)
(* round and an exit of 2,000,000: the Seed preference payout is           *)
(* 2,000,000, remaining proceeds are 0, the Seed participation payout is   *)
(* 0, common proceeds are 0 and the option value is 0.                     *)
(***************************************************************************)
C13_Example2 ==
    (Returned /\ cap_table = ExampleCapTable(10000000, TRUE)
              /\ Valuation = Dollars(2000000)) =>
        /\ payout_log = (1 :> Dollars(2000000))
        /\ remaining_proceeds = 0
        /\ ShareTake(1) = FromInt(0)
        /\ result.common_proceeds = FromInt(0)
        /\ result.option_value = FromInt(0)
        /\ result.error = NoError

C13_Witness ==
    /\ Returned
    /\ cap_table = ExampleCapTable(10000000, TRUE)
    /\ Valuation = Dollars(2000000)
    /\ Len(participating_shareholders) = 1
    /\ total_participating_shares = 10000000

(***************************************************************************)
(* C14 - No arithmetic fault: for every cap table with non-negative share  *)
(* counts (any total, zero included, any rounds) and every valuation, the  *)
(* call is never stuck inside a loop and returns a ScenarioResult, and     *)
(* every denominator it divides by is non-zero: total shares in the        *)
(* conversion test, the eligible pool and common shares in Phase 3.  When  *)
(* Phase 3 is reached the pool is > 0, so its 'pool == 0' branch is never  *)
(* taken.                                                                  *)
(***************************************************************************)
C14_NoArithmeticFault ==
    /\ pc \in {"phase1", "phase2"} =>
          /\ cap_table.total_shares > 0
          /\ common_shares(cap_table) > 0
          /\ idx \in 1..(Len(sorted_rounds) + 1)
    /\ pc = "phase2" => total_participating_shares > 0
    /\ Returned =>
          /\ result.error \in {NoError, ConfigError}
          /\ result.option_value.den > 0
          /\ result.price_per_share.den > 0
          /\ result.common_proceeds.den > 0

C14_Witness ==
    /\ ReturnedValue
    /\ common_shares(cap_table) = 1
    /\ \E i \in DOMAIN payout_log : ~sorted_rounds[i].is_participating
    /\ \E i \in 1..Len(sorted_rounds) : sorted_rounds[i].shares_issued = 0
    /\ Valuation = -1

(***************************************************************************)
(* C15 as stated - ROI: with investment cost = option count x strike       *)
(* price, roi_percentage returns (option value - cost) / cost x 100 when   *)
(* cost > 0, the infinite marker when cost is zero and the option value is *)
(* positive, and 0 when both are zero; create_roi_analysis plots the       *)
(* infinite marker as 999999 and every finite ROI as its own value.        *)
(***************************************************************************)
RoiReturnedAsStated(i) ==
    LET value == results[i].option_value
        cost == cap_table.your_options * cap_table.strike_price
    IN  /\ investment_cost = cost
        /\ cost > 0 =>
              /\ roi_log[i].den > 0
              /\ roi_log[i].num * value.den * cost
                    = (value.num - cost * value.den) * 100 * roi_log[i].den
        /\ (cost = 0 /\ value.num > 0) => roi_log[i].den = 0
        /\ (cost = 0 /\ value.num = 0) => roi_log[i] = FromInt(0)

C15_RoiAsStated ==
    pc = "charted" =>
        /\ Len(roi_data) = Len(results) /\ Len(roi_log) = Len(results)
        /\ \A i \in 1..Len(results) :
             /\ RoiReturnedAsStated(i)
             /\ roi_log[i].den = 0 => roi_data[i].roi = FromInt(999999)
             /\ roi_log[i].den > 0 => roi_data[i].roi = roi_log[i]

(***************************************************************************)
(* C15 amended - ROI: roi_percentage as stated; create_roi_analysis plots  *)
(* the infinite marker and every ROI of 999999 or more as 999999, and      *)
(* every ROI below 999999 as its own value.                                *)
(***************************************************************************)
C15_Roi ==
    pc = "charted" =>
        /\ Len(roi_data) = Len(results) /\ Len(roi_log) = Len(results)
        /\ \A i \in 1..Len(results) :
             /\ RoiReturnedAsStated(i)
             /\ roi_log[i].den = 0 => roi_data[i].roi = FromInt(999999)
             /\ (roi_log[i].den > 0 /\ roi_log[i].num < 999999 * roi_log[i].den)
                    => roi_data[i].roi = roi_log[i]
             /\ (roi_log[i].den > 0 /\ roi_log[i].num >= 999999 * roi_log[i].den)
                    => roi_data[i].roi = FromInt(999999)

C15_Witness ==
    /\ pc = "charted"
    /\ Len(results) = 2
    /\ investment_cost > 0
    /\ roi_log[1].den > 0 /\ roi_log[1].num > 999999 * roi_log[1].den
    /\ roi_data[1].roi = FromInt(999999)
    /\ roi_log[2].num < 0
    /\ roi_data[2].roi = roi_log[2]

(***************************************************************************)
(* C16 - Purity: no step of any sequence of calculate_scenario and         *)
(* calculate_multiple_scenarios calls on one calculator changes the cap    *)
(* table (total shares, options, strike, the funding rounds, their order   *)
(* and attributes), and two calls of calculate_scenario with the same      *)
(* scenario return equal results, whatever calls ran in between.           *)
(***************************************************************************)
SameInputs(r1, r2) ==
    /\ r1.scenario_name = r2.scenario_name
    /\ r1.exit_valuation = r2.exit_valuation

EqualResultsForEqualInputs ==
    /\ \A i \in 1..Len(results) :
         \A j \in 1..Len(results) :
             SameInputs(results[i], results[j]) => results[i] = results[j]
    /\ Returned =>
         \A i \in 1..Len(results) :
             SameInputs(result, results[i]) => result = results[i]

C16_Purity ==
    /\ [][cap_table' = cap_table]_vars
    /\ []EqualResultsForEqualInputs

C16_Witness ==
    /\ Returned
    /\ Len(results) = 3
    /\ SameInputs(results[1], results[3])
    /\ ~SameInputs(results[1], results[2])
    /\ SameInputs(result, results[1])
    /\ result.error = NoError
    /\ RatLess(FromInt(0), result.option_value)
    /\ pos > Len(scenarios)
    /\ Len(cap_table.funding_rounds) = 2
    /\ sorted_rounds # cap_table.funding_rounds

(***************************************************************************)
(* C17 - Phase 1 waterfall: for a valuation V >= 0, each processed round   *)
(* is paid min(proceeds remaining before it, capital raised x liquidation  *)
(* multiple) and remaining proceeds go down by exactly that amount; a      *)
(* round is paid a positive amount only if every round processed before   *)
(* it was paid its full preference; remaining proceeds after Phase 1 are   *)
(* >= 0.                                                                   *)
(***************************************************************************)
PaidBefore(i) == SumLog(payout_log, {j \in DOMAIN payout_log : j < i})

FullPreference(i) ==
    sorted_rounds[i].capital_raised * sorted_rounds[i].liquidation_multiple

C18_OwnPayout ==
    /\ (pc = "phase2" /\ idx <= Len(sorted_rounds)
           /\ idx \in DOMAIN payout_log
           /\ ~sorted_rounds[idx].is_participating) =>
          /\ sorted_rounds[idx].name \in DOMAIN preference_payouts
          /\ preference_payouts[sorted_rounds[idx].name] = payout_log[idx]
    /\ pc \in {"phase2", "done"} =>
          \A i \in DOMAIN refund_log : refund_log[i] = payout_log[i]

(***************************************************************************)
(* C19 - Phase 2 order independence: running the conversion tests of the   *)
(* rounds in any permutation of the order used gives the same set of       *)
(* converting rounds, the same remaining proceeds and the same eligible    *)
(* pool, hence the same common proceeds and option value.                  *)
(***************************************************************************)
ConvertedShares ==
    SumSeq([i \in 1..Len(sorted_rounds) |->
               IF i \in ConvertedPositions
               THEN sorted_rounds[i].shares_issued ELSE 0])

(* the locals as they were when Phase 2 began *)
LocalsBeforePhase2 ==
    [Locals EXCEPT
        !.remaining_proceeds = @ - TotalOf(refund_log),
        !.total_participating_shares = @ - ConvertedShares]

RECURSIVE ConvertedAlong(_, _)
ConvertedAlong(st, order) ==
    IF order = <<>> THEN {}
    ELSE LET next == Phase2Body(cap_table, exit_scenario, st,
                                sorted_rounds[Head(order)])
         IN  (IF next # st THEN {Head(order)} ELSE {})
                \cup ConvertedAlong(next, Tail(order))

C19_Phase2OrderIndependent ==
    ReturnedValue =>
        \A order \in Permutations(1..Len(sorted_rounds)) :
            LET permuted == [k \in 1..Len(sorted_rounds) |-> sorted_rounds[order[k]]]
                final == RunPhase2(cap_table, exit_scenario,
                                   LocalsBeforePhase2, permuted)
            IN  /\ ConvertedAlong(LocalsBeforePhase2,
                                 [k \in 1..Len(sorted_rounds) |-> order[k]])
                      = ConvertedPositions
                /\ final.remaining_proceeds = remaining_proceeds
                /\ final.total_participating_shares = total_participating_shares
                /\ Phase3(cap_table, exit_scenario, final).common_proceeds
                      = result.common_proceeds
                /\ Phase3(cap_table, exit_scenario, final).option_value
                      = result.option_value

C19_Witness ==
    /\ ReturnedValue
    /\ Len(sorted_rounds) = 2
    /\ DOMAIN payout_log = {1, 2}
    /\ ~sorted_rounds[1].is_participating
    /\ ~sorted_rounds[2].is_participating
    /\ ConvertedPositions = {2}
    /\ refund_log[2] > 0
    /\ RatLess(FromInt(0), result.option_value)

(***************************************************************************)
(* C20 - Phase 3 distribution: the eligible pool is common shares plus the *)
(* shares of every processed participating round plus the shares of every  *)
(* round that converted in Phase 2, and no others; common proceeds are     *)
(* remaining proceeds x common shares / pool, and the reported price per   *)
(* common share is remaining proceeds / pool.                              *)
(***************************************************************************)
SharesAt(S) ==
    SumSeq([i \in 1..Len(sorted_rounds) |->
               IF i \in S THEN sorted_rounds[i].shares_issued ELSE 0])

C20_Phase3Distribution ==
    ReturnedValue =>
        /\ total_participating_shares =
              (cap_table.total_shares - SharesAt(1..Len(sorted_rounds)))
                + SharesAt(ParticipatingPositions) + SharesAt(ConvertedPositions)
        /\ ParticipatingPositions \cap ConvertedPositions = {}
        /\ result.common_proceeds =
              Rat(remaining_proceeds
                    * (cap_table.total_shares - SharesAt(1..Len(sorted_rounds))),
                  total_participating_shares)
        /\ result.price_per_share =
              Rat(remaining_proceeds, total_participating_shares)

C20_Witness ==
    /\ ReturnedValue
    /\ ParticipatingPositions # {}
    /\ ConvertedPositions # {}
    /\ total_participating_shares = cap_table.total_shares
    /\ total_participating_shares > 2
    /\ result.price_per_share.den > 1
    /\ result.common_proceeds # result.price_per_share

(***************************************************************************)
(* C21 - Participating rounds never convert: for every cap table and       *)
(* valuation no participating round is among the converting rounds, no     *)
(* refund into remaining proceeds is made for one (remaining proceeds are  *)
(* V less all Phase-1 payouts plus the refunds of converting               *)
(* non-participating rounds), and its shares are in the eligible pool      *)
(* exactly once, so what it takes is its preference payout plus price per  *)
(* eligible share x its shares.                                            *)
(***************************************************************************)
C21_ParticipatingNeverConvert ==
    (pc = "phase2" \/ ReturnedValue) =>
        /\ \A i \in 1..Len(sorted_rounds) :
             sorted_rounds[i].is_participating => i \notin DOMAIN refund_log
        /\ remaining_proceeds =
              Valuation - TotalOf(payout_log)
                + SumLog(refund_log,
                         {i \in DOMAIN refund_log : ~sorted_rounds[i].is_participating})
        /\ Len(participating_shareholders) = Cardinality(ParticipatingPositions)
        /\ total_participating_shares =
              (cap_table.total_shares - SharesAt(1..Len(sorted_rounds)))
                + SharesAt(ParticipatingPositions)
                + SharesAt({i \in DOMAIN refund_log :
                               ~sorted_rounds[i].is_participating})

C21_Witness ==
    /\ ReturnedValue
    /\ \E i \in ParticipatingPositions :
         /\ payout_log[i] > 0
         /\ RatLess(FromInt(payout_log[i]),
                    ConversionValue(cap_table, exit_scenario, sorted_rounds[i]))
         /\ RatLess(FromInt(0), ShareTake(i))
    /\ ConvertedPositions # {}

(***************************************************************************)
(* C22 - Option valuation: on the non-error path the total option value is *)
(* max(0, price per common share - strike price) x option count: 0         *)
(* whenever price <= strike, and strictly positive whenever price > strike *)
(* and the option count is > 0.                                            *)
(***************************************************************************)
C22_OptionValuation ==
    ReturnedValue =>
        LET price == result.price_per_share
            value == result.option_value
            strike == cap_table.strike_price
            options == cap_table.your_options
        IN  /\ price.den > 0 /\ value.den > 0
            /\ price.num <= strike * price.den => value.num = 0
            /\ price.num > strike * price.den =>
                  /\ value.num * price.den
                        = (price.num - strike * price.den) * options * value.den
                  /\ options > 0 => value.num > 0

C22_Witness ==
    /\ ReturnedValue
    /\ cap_table.strike_price > 0
    /\ cap_table.your_options > 0
    /\ result.price_per_share.den > 1
    /\ RatLess(FromInt(cap_table.strike_price), result.price_per_share)
    /\ RatLess(FromInt(0), result.option_value)
    /\ RatLess(result.option_value, result.price_per_share)

(***************************************************************************)
(* C23 - Best scenario selection: the result process_inputs picks for the  *)
(* detailed view has the maximum option value of all returned results,     *)
(* and among several results with that value it is the earliest in input   *)
(* order.                                                                  *)
(***************************************************************************)
C23_BestScenario ==
    pc \in {"best", "waterfall", "charted"} =>
        \E i \in 1..Len(results) :
            /\ best_result = results[i]
            /\ \A j \in 1..Len(results) :
                 /\ RatLeq(results[j].option_value, results[i].option_value)
                 /\ j < i => RatLess(results[j].option_value,
                                     results[i].option_value)

C23_Witness ==
    /\ pc = "best"
    /\ Len(results) = 2
    /\ results[1].option_value = results[2].option_value
    /\ results[1] # results[2]
    /\ results[1].error = NoError
    /\ best_result = results[1]

(***************************************************************************)
(* C24 - Bounds invariant: for a valid cap table with distinctly named     *)
(* rounds, capital and multiples >= 0, and V > 0, remaining proceeds are   *)
(* within [0, V] after every step of Phase 1 and of Phase 2, and the       *)
(* returned common proceeds are within [0, V].                             *)
(***************************************************************************)
DistinctNames ==
    \A i \in 1..Len(cap_table.funding_rounds) :
        \A j \in 1..Len(cap_table.funding_rounds) :
            cap_table.funding_rounds[i].name = cap_table.funding_rounds[j].name
                => i = j

C24_Bounds ==
    (Valuation > 0 /\ DistinctNames) =>
        /\ pc \in {"phase1", "phase2"} =>
              (0 <= remaining_proceeds /\ remaining_proceeds <= Valuation)
        /\ ReturnedValue =>
              /\ 0 <= remaining_proceeds /\ remaining_proceeds <= Valuation
              /\ RatLeq(FromInt(0), result.common_proceeds)
              /\ RatLeq(result.common_proceeds, FromInt(Valuation))

C24_Witness ==
    /\ ReturnedValue
    /\ Valuation > 0
    /\ Len(sorted_rounds) = 2
    /\ payout_log = (1 :> 2) @@ (2 :> 1)
    /\ refund_log = (2 :> 1)
    /\ remaining_proceeds = 1
    /\ RatLess(FromInt(0), result.common_proceeds)
    /\ RatLess(result.common_proceeds, FromInt(1))

(***************************************************************************)
(* C25 - Waterfall view agrees with the engine: for a valid cap table the  *)
(* common-stock payout create_liquidation_waterfall computes equals the    *)
(* common_proceeds calculate_scenario returned for the same cap table and  *)
(* valuation, also when a non-participating round converts.                *)
(***************************************************************************)
C25_WaterfallAgrees ==
    (pc \in {"waterfall", "charted"} /\ best_result.error = NoError) =>
        waterfall_common = best_result.common_proceeds

(***************************************************************************)
(* The second engine: calculate_single_scenario of equity_calculator.py,   *)
(* which takes the Seed / Series A / Series B parameters one by one, and   *)
(* create_cap_table of models.py, which builds the cap table the first     *)
(* engine works on from the same parameters.                               *)
(***************************************************************************)
create_cap_table(in) ==
    LET seed == IF in.seed.shares_issued > 0 \/ in.seed.capital_raised > 0
                THEN <<FundingRound("Seed", in.seed)>> ELSE <<>>
        series_a == IF in.series_a.shares_issued > 0
                       \/ in.series_a.capital_raised > 0
                    THEN <<FundingRound("Series A", in.series_a)>> ELSE <<>>
        series_b == IF in.series_b.shares_issued > 0
                       \/ in.series_b.capital_raised > 0
                    THEN <<FundingRound("Series B", in.series_b)>> ELSE <<>>
    IN  [total_shares |-> in.total_shares,
         your_options |-> in.your_options,
         strike_price |-> in.strike_price,
         funding_rounds |-> seed \o series_a \o series_b]

(* Phase 1 of one round: the payout it takes from what is left *)
SinglePayout(round, remaining) ==
    IF round.shares_issued > 0 /\ round.capital_raised > 0
    THEN Min(remaining, round.capital_raised * round.liquidation_multiple)
    ELSE 0

SingleParticipatingShares(round) ==
    IF round.shares_issued > 0 /\ round.capital_raised > 0
       /\ round.is_participating
    THEN round.shares_issued ELSE 0

(* variant: the participation flag is not looked at *)
SingleConvertsAnyRound(in, exit_valuation, round, payout) ==
    /\ round.shares_issued > 0
    /\ round.capital_raised > 0
    /\ RatLess(FromInt(payout),
               RatMul(RatDiv(FromInt(round.shares_issued),
                             FromInt(in.total_shares)),
                      FromInt(exit_valuation)))

(* Phase 2 of one round: conversion_value > its preference payout *)
SingleConverts(in, exit_valuation, round, payout) ==
    /\ round.shares_issued > 0
    /\ round.capital_raised > 0
    /\ ~round.is_participating
    /\ RatLess(FromInt(payout),
               RatMul(RatDiv(FromInt(round.shares_issued),
                             FromInt(in.total_shares)),
                      FromInt(exit_valuation)))

SingleResult(valuation, option_value, price, proceeds, err) ==
    [exit_valuation |-> valuation, option_value |-> option_value,
     price_per_share |-> price, common_proceeds |-> proceeds, error |-> err]

calculate_single_scenario(exit_valuation, in) ==
    LET total_preferred == in.seed.shares_issued + in.series_a.shares_issued
                               + in.series_b.shares_issued
        common == in.total_shares - total_preferred
        series_b_preference_payout == SinglePayout(in.series_b, exit_valuation)
        after_b == exit_valuation - series_b_preference_payout
        series_a_preference_payout == SinglePayout(in.series_a, after_b)
        after_a == after_b - series_a_preference_payout
        seed_preference_payout == SinglePayout(in.seed, after_a)
        after_seed == after_a - seed_preference_payout
        participating_preferred_shares ==
            SingleParticipatingShares(in.series_b)
                + SingleParticipatingShares(in.series_a)
                + SingleParticipatingShares(in.seed)
        b_converts == SingleConverts(in, exit_valuation, in.series_b,
                                     series_b_preference_payout)
        a_converts == SingleConverts(in, exit_valuation, in.series_a,
                                     series_a_preference_payout)
        seed_converts == SingleConverts(in, exit_valuation, in.seed,
                                        seed_preference_payout)
        remaining ==
            after_seed
                + (IF b_converts THEN series_b_preference_payout ELSE 0)
                + (IF a_converts THEN series_a_preference_payout ELSE 0)
                + (IF seed_converts THEN seed_preference_payout ELSE 0)
        pool ==
            common + participating_preferred_shares
                + (IF b_converts THEN in.series_b.shares_issued ELSE 0)
                + (IF a_converts THEN in.series_a.shares_issued ELSE 0)
                + (IF seed_converts THEN in.seed.shares_issued ELSE 0)
        common_proceeds ==
            IF pool > 0
            THEN RatMul(RatDiv(FromInt(remaining), FromInt(pool)),
                        FromInt(common))
            ELSE FromInt(remaining)
        price_per_common_share ==
            IF common > 0 THEN RatDiv(common_proceeds, FromInt(common))
            ELSE FromInt(0)
        option_value_per_share ==
            RatMax(FromInt(0),
                   RatSub(price_per_common_share, FromInt(in.strike_price)))
        total_option_value ==
            RatMul(option_value_per_share, FromInt(in.your_options))
    IN  IF common <= 0
        THEN SingleResult(exit_valuation, FromInt(0), FromInt(0), FromInt(0),
                          ConfigError)
        ELSE SingleResult(exit_valuation, total_option_value,
                          price_per_common_share, common_proceeds, NoError)

(* The caller hands the parameters of the finished models.py computation   *)
(* to calculate_single_scenario.                                           *)
CallSingleScenario ==
    /\ pc = "done"
    /\ single_result' =
           calculate_single_scenario(exit_scenario.exit_valuation, inputs)
    /\ pc' = "compared"
    /\ UNCHANGED <<cap_table, exit_scenario, sorted_rounds, idx,
                   remaining_proceeds, participating_shareholders,
                   preference_payouts, total_participating_shares, result,
                   payout_log, refund_log>>
    /\ UNCHANGED loopVars
    /\ UNCHANGED <<investment_cost, roi_data, roi_log, best_result,
                   waterfall_common, inputs, message>>

EngineShareCounts == {0, 1}

EngineTerms == {t \in RoundTerms : t.shares_issued \in EngineShareCounts}

EngineInputs ==
    [total_shares : 0..MaxTotalShares,
     your_options : {1},
     strike_price : StrikePrices,
     seed : EngineTerms,
     series_a : EngineTerms,
     series_b : EngineTerms]

InitEngines ==
    \E in \in EngineInputs : InitState(create_cap_table(in), in, "idle")

NextEngines ==
    \/ \E sc \in ExitScenarios : ReturnConfigError(sc)
    \/ \E sc \in ExitScenarios : BeginPhase1(sc)
    \/ Phase1Step
    \/ BeginPhase2
    \/ Phase2Step
    \/ Phase3Return
    \/ CallSingleScenario

SpecEngines == InitEngines /\ [][NextEngines]_vars

RatEq(a, b) == RatLeq(a, b) /\ RatLeq(b, a)

None == [given |-> FALSE, value |-> 0]
Some(v) == [given |-> TRUE, value |-> v]

OrDefault(x, d) == IF x.given /\ x.value # 0 THEN x.value ELSE d
OrFalse(x) == x.given /\ x.value

DefaultTotalShares == 10000000
DefaultStrikePrice == 1

InvalidInputs == "Invalid inputs - please check your values"
NoScenarios ==
    "Please enter at least one exit scenario with a positive value"

(* lines 130-141: the keyword arguments of one round *)
CoalescedRound(raw) ==
    [shares_issued |-> OrDefault(raw.shares_issued, 0),
     capital_raised |-> OrDefault(raw.capital_raised, 0),
     liquidation_multiple |-> OrDefault(raw.liquidation_multiple, 1),
     is_participating |-> OrFalse(raw.is_participating)]

(* lines 116-118 and 126-142 *)
CoalescedInputs(in) ==
    [total_shares |-> OrDefault(in.total_shares, DefaultTotalShares),
     your_options |-> OrDefault(in.your_options, 0),
     strike_price |-> OrDefault(in.strike_price, DefaultStrikePrice),
     seed |-> CoalescedRound(in.seed),
     series_a |-> CoalescedRound(in.series_a),
     series_b |-> CoalescedRound(in.series_b)]

(* lines 146-158: the five scenario slots, default names, only positive    *)
(* exit values kept, in slot order                                         *)
BuildScenarios(exits) ==
    LET kept[i \in 0..Len(ScenarioNames)] ==
            IF i = 0 THEN <<>>
            ELSE IF OrDefault(exits[i], 0) > 0
                 THEN Append(kept[i - 1],
                             [name |-> ScenarioNames[i],
                              exit_valuation |-> OrDefault(exits[i], 0)])
                 ELSE kept[i - 1]
    IN  kept[Len(ScenarioNames)]

(* lines 115-166: defaults, validation, cap table, scenarios, and the call *)
(* of calculate_multiple_scenarios, whose loop the Loop actions run        *)
ProcessInputs ==
    /\ pc = "inputs"
    /\ LET in == CoalescedInputs(inputs)
           list == BuildScenarios(inputs.exits)
       IN  IF in.total_shares <= 0
           THEN /\ message' = InvalidInputs
                /\ pc' = "invalid"
                /\ UNCHANGED <<cap_table, scenarios, pos, results>>
           ELSE IF list = <<>>
           THEN /\ message' = NoScenarios
                /\ pc' = "invalid"
                /\ cap_table' = create_cap_table(in)
                /\ UNCHANGED <<scenarios, pos, results>>
           ELSE /\ message' = message
                /\ cap_table' = create_cap_table(in)
                /\ scenarios' = list
                /\ pos' = 1
                /\ results' = <<>>
                /\ pc' = "loop"
    /\ UNCHANGED <<exit_scenario, sorted_rounds, idx, remaining_proceeds,
                   participating_shareholders, preference_payouts,
                   total_participating_shares, result, payout_log,
                   refund_log>>
    /\ UNCHANGED <<investment_cost, roi_data, roi_log, best_result,
                   waterfall_common, inputs, single_result>>

NoRound ==
    [shares_issued |-> None, capital_raised |-> None,
     liquidation_multiple |-> None, is_participating |-> None]

RawSeeds ==
    {NoRound,
     [shares_issued |-> Some(2000000),
      capital_raised |-> Some(Dollars(2000000)),
      liquidation_multiple |-> None,
      is_participating |-> Some(FALSE)]}

RawExits ==
    {<<first, second, None, None, None>> :
        first \in {None, Some(0), Some(Dollars(1000000))},
        second \in {None, Some(Dollars(3000000))}}

RawInputs ==
    [total_shares : {None, Some(-1), Some(0), Some(5)},
     your_options : {None, Some(0), Some(2)},
     strike_price : {None, Some(0), Some(1), Some(2)},
     seed : RawSeeds,
     series_a : {NoRound},
     series_b : {NoRound},
     exits : RawExits]

NoCapTable ==
    [total_shares |-> 0, your_options |-> 0, strike_price |-> 0,
     funding_rounds |-> <<>>]

InitInputs == \E in \in RawInputs : InitState(NoCapTable, in, "inputs")

(* every scenario process_inputs builds has a positive exit value, so the  *)
(* loop of calculate_multiple_scenarios skips none of them                 *)
NextInputs ==
    \/ ProcessInputs
    \/ LoopCallConfigError
    \/ LoopCallPhase1
    \/ Phase1Step
    \/ BeginPhase2
    \/ Phase2Step
    \/ Phase3Return
    \/ LoopAppend
    \/ LoopReturn
    \/ SelectBestResult
    \/ CreateLiquidationWaterfall
    \/ CreateRoiAnalysis

SpecInputs == InitInputs /\ [][NextInputs]_vars

(***************************************************************************)
(* C27: for every supplied total_shares value that is <= 0, exactly 0      *)
(* included, process_inputs returns the message "Invalid inputs - please   *)
(* check your values" with no charts, and no scenario is computed.         *)
(***************************************************************************)
C27_InputValidation ==
    (inputs.total_shares.given /\ inputs.total_shares.value <= 0
     /\ pc # "inputs") =>
        /\ message = InvalidInputs
        /\ pc = "invalid"
        /\ results = <<>>
        /\ roi_data = <<>>

(***************************************************************************)
(* C28: whenever the caller supplies a strike price, 0 included, the cap   *)
(* table process_inputs builds carries that strike price: only a missing   *)
(* strike price is replaced by the default, and a supplied 0 makes the     *)
(* investment cost 0.                                                      *)
(***************************************************************************)
C28_SuppliedStrikeKept ==
    (inputs.strike_price.given /\ pc # "inputs" /\ message # InvalidInputs) =>
        /\ cap_table.strike_price = inputs.strike_price.value
        /\ (pc = "charted" /\ inputs.strike_price.value = 0) =>
               investment_cost = 0

====
